---- MODULE Spec2Model ----
(***************************************************************************)
(* Model of the webboy-core CPU tick: the interrupt controller             *)
(* (cpu/interrupts.rs), the opcode dispatch engine (cpu/opcodes.rs) and    *)
(* the per-tick clock accounting, over a byte-addressed memory that stores *)
(* what is written.                                                        *)
(*                                                                         *)
(* Arithmetic written with the plain operators +, - and += in the Rust     *)
(* source panics when the build has overflow checks (debug profile) and    *)
(* wraps when it has none (release profile).  The build is the variable    *)
(* overflow_checks, fixed in the initial state; a panic sets `panicked`    *)
(* and stops the machine.                                                  *)
(***************************************************************************)
EXTENDS Integers, Naturals, Sequences, FiniteSets, TLC

VARIABLES
    registers,              \* cpu.registers: a b c d e h l f program_counter stack_pointer
    clock,                  \* cpu.clock.instruction_clock_cycles
    cpu_interrupts_enabled, \* cpu.interrupts.enabled: the global gate
    interrupts,             \* emulator.interrupts: [enabled, flags]
    memory,                 \* sparse byte store: address -> non-zero byte
    in_bios,                \* memory.in_bios
    panicked,               \* an overflow check has aborted the program
    overflow_checks,        \* build profile: TRUE debug, FALSE release
    ticks,                  \* number of ticks run so far
    loaded,                 \* an instruction has been placed at the program counter
    last,                   \* the last tick: the machine before and after it
    previous,               \* the tick before the last one
    dispatch_log,           \* service addresses dispatched so far, oldest first
    raised,                 \* a collaborator has requested an interrupt since start
    start,                  \* the interrupt registers of the initial state
    apu,                    \* emulator.apu: ApuState
    timers,                 \* emulator.timers: [divider]
    cartridge,              \* the supported type codes and the last load_rom: [supported, type_code, result]
    apu_steps,              \* number of APU operations run so far
    apu_last,               \* the last APU operation: its name, the APU before and after it
    advance_log             \* the latest DIV-APU advances, oldest first

apu_vars == <<apu, timers, cartridge, apu_steps, apu_last, advance_log>>

vars == <<registers, clock, cpu_interrupts_enabled, interrupts, memory, in_bios,
          panicked, overflow_checks, ticks, loaded, last, previous, dispatch_log,
          raised, start, apu, timers, cartridge, apu_steps, apu_last, advance_log>>

(***************************************************************************)
(* Bounds of the model.                                                    *)
(***************************************************************************)
MaxTicks == 2          \* ticks of a run of Spec
MaxChainTicks == 6     \* ticks of a run of SpecPriority
MaxStackTicks == 2     \* ticks of a run of SpecStack
MaxLoadTicks == 2      \* ticks of a run of SpecLoad
MaxTableTicks == 1     \* ticks of a run of SpecTable
MaxAddTicks == 1       \* ticks of a run of SpecAdd

(***************************************************************************)
(* Fixed-width integers.                                                   *)
(***************************************************************************)
Bit(x, i) == (x \div (2 ^ i)) % 2

\* x & y on 8-bit values
BitAnd(x, y) ==
    LET b(i) == (2 ^ i) * Bit(x, i) * Bit(y, i)
    IN  b(0) + b(1) + b(2) + b(3) + b(4) + b(5) + b(6) + b(7)

\* a u16 result that does not fit: v is the mathematical result
Overflows16(v) == v < 0 \/ v >= 2 ^ 16

Wrap16(v) == v % (2 ^ 16)

HighByte(word) == word \div 256

LowByte(word) == word % 256

\* i8 value of a byte (`as i8`)
AsSigned(byte) == IF byte >= 128 THEN byte - 256 ELSE byte

(***************************************************************************)
(* The machine state the operations thread through: the fields of          *)
(* Emulator / CpuState that the CPU tick reads or writes.                  *)
(***************************************************************************)
Emu ==
    [registers |-> registers,
     clock     |-> clock,
     gate      |-> cpu_interrupts_enabled,
     interrupts |-> interrupts,
     memory    |-> memory,
     in_bios   |-> in_bios,
     panicked  |-> panicked,
     \* observation of the tick in progress
     transfers |-> 0,        \* interrupt transfers performed
     source    |-> "None",   \* the source transferred to
     fetched   |-> 0,        \* opcodes fetched
     opcode    |-> -1]       \* the opcode fetched

\* a failed overflow check: the program aborts where it stands
Panic(s) == [s EXCEPT !.panicked = TRUE]

(***************************************************************************)
(* Memory Access Facade: a flat 16-bit address space that stores what is   *)
(* written.  Cells never written read as zero; the store keeps only the    *)
(* non-zero cells so that equal memories are equal values.                 *)
(***************************************************************************)
read_byte(mem, address) ==
    IF address \in DOMAIN mem THEN mem[address] ELSE 0

write_byte(mem, address, value) ==
    IF value = 0
    THEN [x \in (DOMAIN mem) \ {address} |-> mem[x]]
    ELSE [x \in (DOMAIN mem) \cup {address} |-> IF x = address THEN value ELSE mem[x]]

(***************************************************************************)
(* Micro-operations (cpu/microops): register and memory access with the    *)
(* cycle cost of each bus operation.  A result with a value is the record  *)
(* [st, val].                                                              *)
(***************************************************************************)
\* cycles charged for one memory access or one internal bus operation
MachineCycle == 1

run_extra_machine_cycle(s) ==
    IF s.panicked THEN s ELSE [s EXCEPT !.clock = @ + MachineCycle]

read_byte_from_memory(s, address) ==
    IF s.panicked THEN [st |-> s, val |-> 0]
    ELSE [st  |-> [s EXCEPT !.clock = @ + MachineCycle],
          val |-> read_byte(s.memory, address)]

store_byte_in_memory(s, address, byte) ==
    IF s.panicked THEN s
    ELSE [s EXCEPT !.clock = @ + MachineCycle,
                   !.memory = write_byte(@, address, byte)]

\* faulty variant: the first byte read taken as the high byte
read_word_from_memory_high_first(s, address) ==
    LET first  == read_byte_from_memory(s, address)
        second == read_byte_from_memory(first.st, Wrap16(address + 1))
    IN  [st |-> second.st, val |-> first.val * 256 + second.val]

\* two sequential byte reads, low byte first
read_word_from_memory(s, address) ==
    LET first  == read_byte_from_memory(s, address)
        second == read_byte_from_memory(first.st, Wrap16(address + 1))
    IN  [st |-> second.st, val |-> second.val * 256 + first.val]

\* two sequential byte writes, low byte first
store_word_in_memory(s, address, word) ==
    store_byte_in_memory(store_byte_in_memory(s, address, LowByte(word)),
                         Wrap16(address + 1), HighByte(word))

read_from_register(s, register) == s.registers[register]

\* faulty variant: the flag register stores all eight bits
store_in_register_unmasked(s, register, value) ==
    IF s.panicked THEN s ELSE [s EXCEPT !.registers[register] = value]

\* the low nibble of the flag register always reads as zero
store_in_register(s, register, value) ==
    IF s.panicked THEN s
    ELSE [s EXCEPT !.registers[register] =
              IF register = "f" THEN BitAnd(value, 240) ELSE value]

REGISTER_AF == [first |-> "a", second |-> "f"]

REGISTER_BC == [first |-> "b", second |-> "c"]

REGISTER_DE == [first |-> "d", second |-> "e"]

REGISTER_HL == [first |-> "h", second |-> "l"]

\* recomposed high byte first
read_from_register_pair(s, register_pair) ==
    s.registers[register_pair.first] * 256 + s.registers[register_pair.second]

store_in_register_pair(s, register_pair, word) ==
    store_in_register(store_in_register(s, register_pair.first, HighByte(word)),
                      register_pair.second, LowByte(word))

\* flag bits of F: Zero 7, Subtract 6, Half-carry 5, Carry 4
set_flag(s, index, on) ==
    IF s.panicked THEN s
    ELSE [s EXCEPT !.registers.f =
              IF on THEN @ + (1 - Bit(@, index)) * (2 ^ index)
                    ELSE @ - Bit(@, index) * (2 ^ index)]

set_flag_z(s, on) == set_flag(s, 7, on)

set_flag_n(s, on) == set_flag(s, 6, on)

set_flag_h(s, on) == set_flag(s, 5, on)

set_flag_c(s, on) == set_flag(s, 4, on)

(***************************************************************************)
(* Checked arithmetic on the program counter, the stack pointer and the    *)
(* HL address: `x += n`, `x = x - n`.  With overflow checks the operation  *)
(* panics when the result does not fit in a u16; without, it wraps.        *)
(***************************************************************************)
add_program_counter(s, n) ==
    IF s.panicked THEN s
    ELSE LET v == s.registers.program_counter + n
         IN  IF Overflows16(v) /\ overflow_checks THEN Panic(s)
             ELSE [s EXCEPT !.registers.program_counter = Wrap16(v)]

add_stack_pointer(s, n) ==
    IF s.panicked THEN s
    ELSE LET v == s.registers.stack_pointer + n
         IN  IF Overflows16(v) /\ overflow_checks THEN Panic(s)
             ELSE [s EXCEPT !.registers.stack_pointer = Wrap16(v)]

\* `address += 1` / `address -= 1` followed by the store into HL
store_hl_address_plus(s, address, n) ==
    IF s.panicked THEN s
    ELSE LET v == address + n
         IN  IF Overflows16(v) /\ overflow_checks THEN Panic(s)
             ELSE store_in_register_pair(s, REGISTER_HL, Wrap16(v))

(***************************************************************************)
(* cpu/opcodes.rs                                                          *)
(***************************************************************************)
\* faulty variant: the fetch advances the program counter by two
read_next_instruction_byte_skipping(s) ==
    LET byte == read_byte_from_memory(s, s.registers.program_counter)
    IN  [st |-> add_program_counter(byte.st, 2), val |-> byte.val]

read_next_instruction_byte(s) ==
    LET byte == read_byte_from_memory(s, s.registers.program_counter)
    IN  [st |-> add_program_counter(byte.st, 1), val |-> byte.val]

read_next_instruction_word(s) ==
    LET word == read_word_from_memory(s, s.registers.program_counter)
    IN  [st |-> add_program_counter(word.st, 2), val |-> word.val]

load_immediate_value(s, register) ==
    LET immediate_byte == read_next_instruction_byte(s)
    IN  store_in_register(immediate_byte.st, register, immediate_byte.val)

load_source_register_in_destination_register(s, source, destination) ==
    store_in_register(s, destination, read_from_register(s, source))

load_memory_byte_in_destination_register(s, address, destination) ==
    LET byte == read_byte_from_memory(s, address)
    IN  store_in_register(byte.st, destination, byte.val)

load_source_register_in_memory(s, source, address) ==
    store_byte_in_memory(s, address, read_from_register(s, source))

load_immediate_value_in_memory(s, register_pair) ==
    LET address == read_from_register_pair(s, register_pair)
        immediate_byte == read_next_instruction_byte(s)
    IN  store_byte_in_memory(immediate_byte.st, address, immediate_byte.val)

\* faulty variant: the push without the internal cycle
push_register_pair_to_stack_uncharged(s, register_pair) ==
    LET word == read_from_register_pair(s, register_pair)
        s1 == add_stack_pointer(s, -1)
        s2 == store_byte_in_memory(s1, s1.registers.stack_pointer, HighByte(word))
        s3 == add_stack_pointer(s2, -1)
    IN  store_byte_in_memory(s3, s3.registers.stack_pointer, LowByte(word))

push_register_pair_to_stack(s, register_pair) ==
    LET word == read_from_register_pair(s, register_pair)
        s1 == add_stack_pointer(s, -1)
        s2 == store_byte_in_memory(s1, s1.registers.stack_pointer, HighByte(word))
        s3 == add_stack_pointer(s2, -1)
        s4 == store_byte_in_memory(s3, s3.registers.stack_pointer, LowByte(word))
    IN  run_extra_machine_cycle(s4)

pop_word_into_register_pair_from_stack(s, register_pair) ==
    LET first_byte  == read_byte_from_memory(s, s.registers.stack_pointer)
        s1 == add_stack_pointer(first_byte.st, 1)
        second_byte == read_byte_from_memory(s1, s1.registers.stack_pointer)
        s2 == add_stack_pointer(second_byte.st, 1)
        word == second_byte.val * 256 + first_byte.val
    IN  store_in_register_pair(s2, register_pair, word)

\* faulty variant: slot 7 names the flag register
RegisterSlot_flag(i) ==
    CASE i = 0 -> "b" [] i = 1 -> "c" [] i = 2 -> "d" [] i = 3 -> "e"
      [] i = 4 -> "h" [] i = 5 -> "l" [] i = 7 -> "f"

\* operand slots of the 0x40..0x7F block; slot 6 is the HL-indirect one
RegisterSlot(i) ==
    CASE i = 0 -> "b" [] i = 1 -> "c" [] i = 2 -> "d" [] i = 3 -> "e"
      [] i = 4 -> "h" [] i = 5 -> "l" [] i = 7 -> "a"

\* faulty variant: the two operand slots exchanged
execute_load_block_exchanged(s, opcode) ==
    LET source == (opcode - 64) \div 8
        destination == opcode % 8
        address == read_from_register_pair(s, REGISTER_HL)
    IN  IF opcode = 118 THEN s
        ELSE IF source = 6
        THEN load_memory_byte_in_destination_register(s, address, RegisterSlot(destination))
        ELSE IF destination = 6
        THEN load_source_register_in_memory(s, RegisterSlot(source), address)
        ELSE load_source_register_in_destination_register(
                 s, RegisterSlot(source), RegisterSlot(destination))

\* 0x40..0x7F: destination slot (opcode - 0x40) / 8, source slot opcode % 8
execute_load_block(s, opcode) ==
    LET destination == (opcode - 64) \div 8
        source == opcode % 8
        address == read_from_register_pair(s, REGISTER_HL)
    IN  IF opcode = 118 THEN s
        ELSE IF source = 6
        THEN load_memory_byte_in_destination_register(s, address, RegisterSlot(destination))
        ELSE IF destination = 6
        THEN load_source_register_in_memory(s, RegisterSlot(source), address)
        ELSE load_source_register_in_destination_register(
                 s, RegisterSlot(source), RegisterSlot(destination))

\* faulty variant: half-carry and carry from comparing the whole 16-bit values
load_stack_pointer_plus_immediate_wide(s) ==
    LET byte == read_next_instruction_byte(s)
        s1 == byte.st
        stack_pointer == s1.registers.stack_pointer
        sum == Wrap16(stack_pointer + AsSigned(byte.val))
        s2 == store_in_register_pair(s1, REGISTER_HL, sum)
        s3 == set_flag_z(s2, FALSE)
        s4 == set_flag_n(s3, FALSE)
        s5 == set_flag_h(s4, (sum % 4096) < (stack_pointer % 4096))
        s6 == set_flag_c(s5, sum < stack_pointer)
    IN  run_extra_machine_cycle(s6)

\* 0xF8: HL = SP + signed immediate, flags from the low byte
load_stack_pointer_plus_immediate(s) ==
    LET byte == read_next_instruction_byte(s)
        s1 == byte.st
        stack_pointer == s1.registers.stack_pointer
        sum == Wrap16(stack_pointer + AsSigned(byte.val))
        s2 == store_in_register_pair(s1, REGISTER_HL, sum)
        s3 == set_flag_z(s2, FALSE)
        s4 == set_flag_n(s3, FALSE)
        s5 == set_flag_h(s4, (sum % 16) < (stack_pointer % 16))
        s6 == set_flag_c(s5, (sum % 256) < (stack_pointer % 256))
    IN  run_extra_machine_cycle(s6)

\* the arms of `match opcode`, on the state after the opcode fetch
execute_arm(s, opcode) ==
    LET hl == read_from_register_pair(s, REGISTER_HL)
        bc == read_from_register_pair(s, REGISTER_BC)
        de == read_from_register_pair(s, REGISTER_DE)
        word == read_next_instruction_word(s)
        byte == read_next_instruction_byte(s)
        high_page == 65280 + read_from_register(s, "c")
    IN  CASE opcode = 0 -> s
          [] opcode = 1 -> store_in_register_pair(word.st, REGISTER_BC, word.val)
          [] opcode = 2 -> load_source_register_in_memory(s, "a", bc)
          [] opcode = 6 -> load_immediate_value(s, "b")
          [] opcode = 8 ->
                store_word_in_memory(word.st, word.val, word.st.registers.stack_pointer)
          [] opcode = 10 -> load_memory_byte_in_destination_register(s, bc, "a")
          [] opcode = 14 -> load_immediate_value(s, "c")
          [] opcode = 17 -> store_in_register_pair(word.st, REGISTER_DE, word.val)
          [] opcode = 18 -> load_source_register_in_memory(s, "a", de)
          [] opcode = 22 -> load_immediate_value(s, "d")
          [] opcode = 26 -> load_memory_byte_in_destination_register(s, de, "a")
          [] opcode = 30 -> load_immediate_value(s, "e")
          [] opcode = 33 -> store_in_register_pair(word.st, REGISTER_HL, word.val)
          [] opcode = 34 ->
                store_hl_address_plus(load_source_register_in_memory(s, "a", hl), hl, 1)
          [] opcode = 38 -> load_immediate_value(s, "h")
          [] opcode = 42 ->
                store_hl_address_plus(
                    load_memory_byte_in_destination_register(s, hl, "a"), hl, 1)
          [] opcode = 46 -> load_immediate_value(s, "l")
          [] opcode = 49 ->
                IF word.st.panicked THEN word.st
                ELSE [word.st EXCEPT !.registers.stack_pointer = word.val]
          [] opcode = 50 ->
                store_hl_address_plus(load_source_register_in_memory(s, "a", hl), hl, -1)
          [] opcode = 54 -> load_immediate_value_in_memory(s, REGISTER_HL)
          [] opcode = 58 ->
                store_hl_address_plus(
                    load_memory_byte_in_destination_register(s, hl, "a"), hl, -1)
          [] opcode = 62 -> load_immediate_value(s, "a")
          [] opcode \in 64..127 -> execute_load_block(s, opcode)
          [] opcode = 193 -> pop_word_into_register_pair_from_stack(s, REGISTER_BC)
          [] opcode = 197 -> push_register_pair_to_stack(s, REGISTER_BC)
          [] opcode = 209 -> pop_word_into_register_pair_from_stack(s, REGISTER_DE)
          [] opcode = 213 -> push_register_pair_to_stack(s, REGISTER_DE)
          [] opcode = 224 -> load_source_register_in_memory(byte.st, "a", 65280 + byte.val)
          [] opcode = 225 -> pop_word_into_register_pair_from_stack(s, REGISTER_HL)
          [] opcode = 226 -> load_source_register_in_memory(s, "a", high_page)
          [] opcode = 229 -> push_register_pair_to_stack(s, REGISTER_HL)
          [] opcode = 234 -> load_source_register_in_memory(word.st, "a", word.val)
          [] opcode = 240 ->
                load_memory_byte_in_destination_register(byte.st, 65280 + byte.val, "a")
          [] opcode = 241 -> pop_word_into_register_pair_from_stack(s, REGISTER_AF)
          [] opcode = 242 -> load_memory_byte_in_destination_register(s, high_page, "a")
          [] opcode = 245 -> push_register_pair_to_stack(s, REGISTER_AF)
          [] opcode = 248 -> load_stack_pointer_plus_immediate(s)
          [] opcode = 249 ->
                run_extra_machine_cycle(
                    [s EXCEPT !.registers.stack_pointer = hl])
          [] opcode = 250 ->
                load_memory_byte_in_destination_register(word.st, word.val, "a")
          [] OTHER -> s

execute_opcode(s) ==
    LET opcode == read_next_instruction_byte(s)
        s1 == [opcode.st EXCEPT !.fetched = @ + 1, !.opcode = opcode.val]
    IN  IF s1.panicked THEN s1
        ELSE execute_arm(s1, opcode.val)

(***************************************************************************)
(* cpu/jumps: the call-style transfer used by interrupt dispatch.  The     *)
(* program counter is pushed high byte first to descending addresses, the  *)
(* stack pointer wrapping modulo 2^16, then control moves to new_address.  *)
(***************************************************************************)
\* faulty variant: the two bytes of the return address pushed low byte first
restart_low_byte_first(s, new_address) ==
    LET word == s.registers.program_counter
        s1 == [s EXCEPT !.registers.stack_pointer = Wrap16(@ - 1)]
        s2 == store_byte_in_memory(s1, s1.registers.stack_pointer, LowByte(word))
        s3 == [s2 EXCEPT !.registers.stack_pointer = Wrap16(@ - 1)]
        s4 == store_byte_in_memory(s3, s3.registers.stack_pointer, HighByte(word))
        s5 == run_extra_machine_cycle(s4)
    IN  [s5 EXCEPT !.registers.program_counter = new_address,
                   !.transfers = @ + 1]

restart(s, new_address) ==
    LET word == s.registers.program_counter
        s1 == [s EXCEPT !.registers.stack_pointer = Wrap16(@ - 1)]
        s2 == store_byte_in_memory(s1, s1.registers.stack_pointer, HighByte(word))
        s3 == [s2 EXCEPT !.registers.stack_pointer = Wrap16(@ - 1)]
        s4 == store_byte_in_memory(s3, s3.registers.stack_pointer, LowByte(word))
        s5 == run_extra_machine_cycle(s4)
    IN  [s5 EXCEPT !.registers.program_counter = new_address,
                   !.transfers = @ + 1]

(***************************************************************************)
(* cpu/interrupts.rs                                                       *)
(***************************************************************************)
InterruptType == {"VBlank", "LCDStatus", "TimerOverflow", "SerialLink", "JoypadPress"}

\* faulty variant: `|` for the first `&`
get_fired_interrupt_bits_or(s) ==
    BitAnd(s.interrupts.enabled + s.interrupts.flags
               - BitAnd(s.interrupts.enabled, s.interrupts.flags), 31)

get_fired_interrupt_bits(s) ==
    BitAnd(BitAnd(s.interrupts.enabled, s.interrupts.flags), 31)

\* faulty variant: the priority chain tested from bit 4 down
get_fired_interrupt_highest_first(s) ==
    LET fired_interrupt_bits == BitAnd(BitAnd(s.interrupts.enabled, s.interrupts.flags), 31)
    IN  IF BitAnd(fired_interrupt_bits, 16) # 0 THEN "JoypadPress"
        ELSE IF BitAnd(fired_interrupt_bits, 8) # 0 THEN "SerialLink"
        ELSE IF BitAnd(fired_interrupt_bits, 4) # 0 THEN "TimerOverflow"
        ELSE IF BitAnd(fired_interrupt_bits, 2) # 0 THEN "LCDStatus"
        ELSE IF BitAnd(fired_interrupt_bits, 1) # 0 THEN "VBlank"
        ELSE "None"

get_fired_interrupt(s) ==
    LET fired_interrupt_bits == get_fired_interrupt_bits(s)
    IN  IF BitAnd(fired_interrupt_bits, 1) # 0 THEN "VBlank"
        ELSE IF BitAnd(fired_interrupt_bits, 2) # 0 THEN "LCDStatus"
        ELSE IF BitAnd(fired_interrupt_bits, 4) # 0 THEN "TimerOverflow"
        ELSE IF BitAnd(fired_interrupt_bits, 8) # 0 THEN "SerialLink"
        ELSE IF BitAnd(fired_interrupt_bits, 16) # 0 THEN "JoypadPress"
        ELSE "None"

get_interrupt_isr(interrupt_type) ==
    CASE interrupt_type = "VBlank" -> 64
      [] interrupt_type = "LCDStatus" -> 72
      [] interrupt_type = "TimerOverflow" -> 80
      [] interrupt_type = "SerialLink" -> 88
      [] interrupt_type = "JoypadPress" -> 96

\* faulty variant: every pending source is acknowledged at once
turn_off_interrupt_flag_low_five(s, interrupt_type) ==
    [s EXCEPT !.interrupts.flags = BitAnd(@, 224)]

\* faulty variant: every source being fired is acknowledged, not only the serviced one
turn_off_interrupt_flag_all_fired(s, interrupt_type) ==
    [s EXCEPT !.interrupts.flags =
         @ - BitAnd(BitAnd(s.interrupts.enabled, s.interrupts.flags), 31)]

\* flags & !mask
turn_off_interrupt_flag(s, interrupt_type) ==
    LET mask == CASE interrupt_type = "VBlank" -> 1
                  [] interrupt_type = "LCDStatus" -> 2
                  [] interrupt_type = "TimerOverflow" -> 4
                  [] interrupt_type = "SerialLink" -> 8
                  [] interrupt_type = "JoypadPress" -> 16
    IN  [s EXCEPT !.interrupts.flags = BitAnd(@, 255 - mask)]

interrupts_fired(s) == get_fired_interrupt_bits(s) # 0

\* faulty variant: the gate is not consulted
interrupts_step_ignoring_gate(s) ==
    LET s0 == [s EXCEPT !.clock = 0]
        fired == get_fired_interrupt(s0)
    IN  IF fired # "None"
        THEN [restart(turn_off_interrupt_flag([s0 EXCEPT !.gate = FALSE], fired),
                      get_interrupt_isr(fired)) EXCEPT !.source = fired]
        ELSE s0

\* faulty variant: the cycle counter is not zeroed at the start of the tick
interrupts_step_without_reset(s) ==
    LET fired == get_fired_interrupt(s)
    IN  IF s.gate /\ fired # "None"
        THEN [restart(turn_off_interrupt_flag([s EXCEPT !.gate = FALSE], fired),
                      get_interrupt_isr(fired)) EXCEPT !.source = fired]
        ELSE s

interrupts_step(s) ==
    LET s0 == [s EXCEPT !.clock = 0]
        maybe_fired_interrupt == get_fired_interrupt(s0)
    IN  IF s0.gate /\ interrupts_fired(s0)
        THEN IF maybe_fired_interrupt # "None"
             THEN LET s1 == [s0 EXCEPT !.gate = FALSE]
                      s2 == turn_off_interrupt_flag(s1, maybe_fired_interrupt)
                      isr_address == get_interrupt_isr(maybe_fired_interrupt)
                  IN  [restart(s2, isr_address) EXCEPT !.source = maybe_fired_interrupt]
             ELSE s0
        ELSE s0

(***************************************************************************)
(* The tick: cpu::opcodes::step under emulator::step.  The controller runs *)
(* first; the opcode dispatch engine runs only when no service routine was *)
(* dispatched.                                                             *)
(***************************************************************************)
\* faulty variant: the opcode at the new program counter runs in the dispatching tick too
opcodes_step_always_executes(s) == execute_opcode(interrupts_step(s))

opcodes_step(s) ==
    LET s1 == interrupts_step(s)
    IN  IF s1.transfers > 0 THEN s1 ELSE execute_opcode(s1)

\* the boot ROM hands over to the cartridge at 0x0100
at_end_of_boot_rom(s) == s.registers.program_counter = 256

transfer_to_game_rom(s) == [s EXCEPT !.in_bios = FALSE]

emulator_step(s) ==
    opcodes_step(IF at_end_of_boot_rom(s) THEN transfer_to_game_rom(s) ELSE s)

(***************************************************************************)
(* Bit helpers of crate::utils and crate::apu::utils.                      *)
(***************************************************************************)
get_bit(byte, index) == Bit(byte, index)

is_bit_set(byte, index) == Bit(byte, index) = 1

set_bit(byte, index) == IF is_bit_set(byte, index) THEN byte ELSE byte + 2 ^ index

reset_bit(byte, index) == IF is_bit_set(byte, index) THEN byte - 2 ^ index ELSE byte

\* faulty variant: the counter runs one past its maximum before it wraps
bounded_wrapping_add_late(value, max_value) ==
    IF value > max_value THEN 0 ELSE value + 1

\* the next value of a counter that wraps to 0 after max_value
bounded_wrapping_add(value, max_value) ==
    IF value >= max_value THEN 0 ELSE value + 1

\* bit 6 of a channel's period-high / control register
length_enabled(register_value) == is_bit_set(register_value, 6)

(***************************************************************************)
(* apu/period.rs                                                           *)
(***************************************************************************)
initalize_period == [low |-> 0, high |-> 0, divider |-> 0]

calculate_period_value(period) == (period.high % 8) * 256 + period.low

calculate_period_divider(period) == 2048 - calculate_period_value(period)

\* the loop of period::step on [period, reloads, panicked, underflowed]:
\* reloads counts the calls of handle_divider_reload
RECURSIVE period_step(_, _)
period_step(st, divider_increment) ==
    IF divider_increment = 0 \/ st.panicked THEN st
    ELSE IF st.period.divider = 0 /\ overflow_checks
    THEN [st EXCEPT !.panicked = TRUE, !.underflowed = TRUE]
    ELSE LET decremented == IF st.period.divider = 0 THEN 65535
                            ELSE st.period.divider - 1
             wrapped == st.underflowed \/ st.period.divider = 0
             st1 == [st EXCEPT !.period.divider = decremented,
                               !.underflowed = wrapped,
                               !.decrements = @ + 1]
             st2 == IF decremented = 0
                    THEN [st1 EXCEPT !.period.divider = calculate_period_divider(st1.period),
                                     !.reloads = @ + 1]
                    ELSE st1
         IN  period_step(st2, divider_increment - 1)

(***************************************************************************)
(* apu/length: the length timer of a channel counts down to zero.          *)
(***************************************************************************)
MAX_WAVE_CHANNEL_LENGTH == 256

initialize_length == [timer |-> 0]

length_step(length) == IF length.timer > 0 THEN [length EXCEPT !.timer = @ - 1] ELSE length

reload_wave_channel_timer_with_maximum(length) ==
    IF length.timer = 0 THEN [length EXCEPT !.timer = MAX_WAVE_CHANNEL_LENGTH] ELSE length

(***************************************************************************)
(* apu/wave.rs                                                             *)
(***************************************************************************)
initialize_wave_channel ==
    [enabled |-> FALSE, dac_enabled |-> FALSE, length |-> initialize_length,
     volume |-> 0, period |-> initalize_period, wave_position |-> 0]

MAX_WAVE_SAMPLE_STEPS == 31
PERIOD_HIGH_TRIGGER_INDEX == 7

RECURSIVE advance_wave_position(_, _)
advance_wave_position(position, reloads) ==
    IF reloads = 0 THEN position
    ELSE advance_wave_position(bounded_wrapping_add(position, MAX_WAVE_SAMPLE_STEPS),
                               reloads - 1)

\* wave::step on the record [channel, panicked, underflowed, decrements]
wave_step(w, last_instruction_clock_cycles) ==
    IF w.channel.enabled
    THEN LET st == period_step([period |-> w.channel.period, reloads |-> 0,
                                panicked |-> w.panicked, underflowed |-> w.underflowed,
                                decrements |-> w.decrements],
                               last_instruction_clock_cycles \div 2)
         IN  [channel |-> [w.channel EXCEPT
                              !.period = st.period,
                              !.wave_position = advance_wave_position(@, st.reloads)],
              panicked |-> st.panicked,
              underflowed |-> st.underflowed,
              decrements |-> st.decrements]
    ELSE w

wave_disable(channel) == [channel EXCEPT !.enabled = FALSE]

wave_step_length(channel) ==
    IF length_enabled(channel.period.high)
    THEN LET stepped == [channel EXCEPT !.length = length_step(@)]
         IN  IF stepped.length.timer = 0 THEN wave_disable(stepped) ELSE stepped
    ELSE channel

wave_trigger(channel) ==
    LET armed == IF channel.dac_enabled THEN [channel EXCEPT !.enabled = TRUE] ELSE channel
    IN  [armed EXCEPT !.length = reload_wave_channel_timer_with_maximum(@)]

wave_should_trigger(channel) == is_bit_set(channel.period.high, PERIOD_HIGH_TRIGGER_INDEX)

(***************************************************************************)
(* apu/pulse, apu/noise: of channels 1, 2 and 4 the model keeps the two    *)
(* flags the APU reads.  A length, sweep or envelope clock disables a      *)
(* channel when its timer expires; which channels expire at a clock is an  *)
(* input of the step (`expiring`).                                         *)
(***************************************************************************)
initialize_pulse_channel == [enabled |-> FALSE, dac_enabled |-> FALSE]

initialize_noise_channel == [enabled |-> FALSE, dac_enabled |-> FALSE]

channel_should_trigger(register_value) == is_bit_set(register_value, 7)

channel_trigger(channel) ==
    IF channel.dac_enabled THEN [channel EXCEPT !.enabled = TRUE] ELSE channel

channel_disable(channel) == [channel EXCEPT !.enabled = FALSE]

\* envelope::should_disable_dac: bits 3-7 of the envelope settings are all zero
should_disable_dac(envelope_settings) == envelope_settings \div 8 = 0

(***************************************************************************)
(* apu.rs.  The operations thread the record `a`: the APU state, the       *)
(* timers' divider and the tick's cycle count they read, and what the      *)
(* operation did.                                                          *)
(***************************************************************************)
initialize_apu ==
    [audio_master_control |-> 0,
     sound_panning        |-> 0,
     master_volume        |-> 0,
     channel1             |-> initialize_pulse_channel,
     channel2             |-> initialize_pulse_channel,
     channel3             |-> initialize_wave_channel,
     channel4             |-> initialize_noise_channel,
     divider_apu          |-> 0,
     last_divider_time    |-> 0,
     instruction_cycles   |-> 0,
     left_sample_queue    |-> <<>>,
     right_sample_queue   |-> <<>>]

CH1_ENABLED_INDEX == 0
CH2_ENABLED_INDEX == 1
CH3_ENABLED_INDEX == 2
CH4_ENABLED_INDEX == 3
CH3_DAC_ENABLED_INDEX == 7
APU_ENABLED_INDEX == 7
MAX_DIV_APU_STEPS == 7

CPU_RATE == 4194304
SAMPLE_RATE == 48000

\* faulty variant: the rate of a 44100 Hz output
ENQUEUE_RATE_44100 == CPU_RATE \div 44100

ENQUEUE_RATE == CPU_RATE \div SAMPLE_RATE

should_step_div_apu(a) ==
    /\ a.apu.last_divider_time > 0
    /\ a.divider > 0
    /\ get_bit(a.apu.last_divider_time, 4) = 1
    /\ get_bit(a.divider, 4) = 0

envelope_step == 7

length_steps == {0, 2, 4, 6}

sweep_steps == {2, 6}

\* a length or sweep clock of channel 1, 2 or 4: it expires when the step says so
clock_channel(a, channel) ==
    IF a.expiring THEN channel_disable(channel) ELSE channel

\* faulty variant: only the pulse channels' status bits follow their channels
clear_status_of_disabled_pulse_only(a) ==
    LET bits(amc, enabled, index) ==
            IF ~enabled /\ is_bit_set(amc, index) THEN reset_bit(amc, index) ELSE amc
        amc1 == bits(a.apu.audio_master_control, a.apu.channel1.enabled, CH1_ENABLED_INDEX)
        amc2 == bits(amc1, a.apu.channel2.enabled, CH2_ENABLED_INDEX)
    IN  [a EXCEPT !.apu.audio_master_control = amc2]

\* the four status-bit updates of step_div_apu
clear_status_of_disabled(a) ==
    LET bits(amc, enabled, index) ==
            IF ~enabled /\ is_bit_set(amc, index) THEN reset_bit(amc, index) ELSE amc
        amc1 == bits(a.apu.audio_master_control, a.apu.channel1.enabled, CH1_ENABLED_INDEX)
        amc2 == bits(amc1, a.apu.channel2.enabled, CH2_ENABLED_INDEX)
        amc3 == bits(amc2, a.apu.channel3.enabled, CH3_ENABLED_INDEX)
        amc4 == bits(amc3, a.apu.channel4.enabled, CH4_ENABLED_INDEX)
    IN  [a EXCEPT !.apu.audio_master_control = amc4]

step_div_apu(a) ==
    LET current_divider_apu == a.apu.divider_apu
        a1 == IF current_divider_apu = envelope_step
              THEN [a EXCEPT !.envelope_clocked = @ + 1]
              ELSE a
        a2 == IF current_divider_apu \in length_steps
              THEN [a1 EXCEPT
                       !.apu.channel1 = clock_channel(a1, @),
                       !.apu.channel2 = clock_channel(a1, @),
                       !.apu.channel3 = wave_step_length(@),
                       !.apu.channel4 = clock_channel(a1, @),
                       !.length_clocked = @ + 1]
              ELSE a1
        a3 == IF current_divider_apu \in sweep_steps
              THEN [a2 EXCEPT !.apu.channel1 = clock_channel(a2, @),
                              !.sweep_clocked = @ + 1]
              ELSE a2
        a4 == clear_status_of_disabled(a3)
        a5 == [a4 EXCEPT
                  !.apu.divider_apu = bounded_wrapping_add(@, MAX_DIV_APU_STEPS),
                  !.advanced = @ + 1]
        stepped == IF should_step_div_apu(a) THEN a5 ELSE a
    IN  [stepped EXCEPT !.apu.last_divider_time = a.divider]

\* faulty variant: every step counts as powered on
apu_enabled_always(audio_master_control) ==
    is_bit_set(audio_master_control, APU_ENABLED_INDEX) \/ TRUE

apu_enabled(audio_master_control) == is_bit_set(audio_master_control, APU_ENABLED_INDEX)

\* faulty variant: only the left queue receives the sample
enqueue_audio_samples_left_only(a) ==
    IF a.apu.instruction_cycles >= ENQUEUE_RATE
    THEN [a EXCEPT !.apu.instruction_cycles = 0,
                   !.apu.left_sample_queue = Append(@, "left_sample"),
                   !.enqueued = @ + 1]
    ELSE a

enqueue_audio_samples(a) ==
    IF a.apu.instruction_cycles >= ENQUEUE_RATE
    THEN [a EXCEPT !.apu.instruction_cycles = 0,
                   !.apu.left_sample_queue = Append(@, "left_sample"),
                   !.apu.right_sample_queue = Append(@, "right_sample"),
                   !.enqueued = @ + 1]
    ELSE a

\* apu::step
apu_step(a) ==
    IF apu_enabled(a.apu.audio_master_control)
    THEN LET instruction_clock_cycles == a.cycles
             sum == a.apu.instruction_cycles + instruction_clock_cycles
         IN  IF sum > 255 /\ overflow_checks THEN [a EXCEPT !.panicked = TRUE]
             ELSE LET a1 == [a EXCEPT !.apu.instruction_cycles = sum % 256]
                      w == wave_step([channel |-> a1.apu.channel3,
                                      panicked |-> FALSE,
                                      underflowed |-> FALSE,
                                      decrements |-> 0],
                                     instruction_clock_cycles)
                      a2 == [a1 EXCEPT !.apu.channel3 = w.channel,
                                       !.panicked = w.panicked,
                                       !.underflowed = w.underflowed,
                                       !.decrements = w.decrements]
                  IN  IF a2.panicked THEN a2
                      ELSE enqueue_audio_samples(step_div_apu(a2))
    ELSE a

set_ch1_period_high(a, new_period_high_value) ==
    IF channel_should_trigger(new_period_high_value)
    THEN [a EXCEPT !.apu.channel1 = channel_trigger(@),
                   !.apu.audio_master_control = set_bit(@, CH1_ENABLED_INDEX)]
    ELSE a

set_ch2_period_high(a, new_period_high_value) ==
    IF channel_should_trigger(new_period_high_value)
    THEN [a EXCEPT !.apu.channel2 = channel_trigger(@),
                   !.apu.audio_master_control = set_bit(@, CH2_ENABLED_INDEX)]
    ELSE a

set_ch3_period_high(a, new_period_high_value) ==
    LET a1 == [a EXCEPT !.apu.channel3.period.high = new_period_high_value]
    IN  IF wave_should_trigger(a1.apu.channel3)
        THEN [a1 EXCEPT !.apu.channel3 = wave_trigger(@),
                        !.apu.audio_master_control = set_bit(@, CH3_ENABLED_INDEX)]
        ELSE a1

set_ch4_control(a, new_control_value) ==
    IF channel_should_trigger(new_control_value)
    THEN [a EXCEPT !.apu.channel4 = channel_trigger(@),
                   !.apu.audio_master_control = set_bit(@, CH4_ENABLED_INDEX)]
    ELSE a

set_ch1_envelope_settings(a, new_envelope_settings) ==
    LET should_disable == should_disable_dac(new_envelope_settings)
        a1 == [a EXCEPT !.apu.channel1.dac_enabled = ~should_disable]
    IN  IF should_disable
        THEN [a1 EXCEPT !.apu.channel1 = channel_disable(@),
                        !.apu.audio_master_control = reset_bit(@, CH1_ENABLED_INDEX)]
        ELSE a1

set_ch2_envelope_settings(a, new_envelope_settings) ==
    LET should_disable == should_disable_dac(new_envelope_settings)
        a1 == [a EXCEPT !.apu.channel2.dac_enabled = ~should_disable]
    IN  IF should_disable
        THEN [a1 EXCEPT !.apu.channel2 = channel_disable(@),
                        !.apu.audio_master_control = reset_bit(@, CH2_ENABLED_INDEX)]
        ELSE a1

set_ch3_dac_enabled(a, new_dac_enabled_register_value) ==
    LET should_disable == ~is_bit_set(new_dac_enabled_register_value, CH3_DAC_ENABLED_INDEX)
        a1 == [a EXCEPT !.apu.channel3.dac_enabled = ~should_disable]
    IN  IF should_disable
        THEN [a1 EXCEPT !.apu.channel3 = wave_disable(@),
                        !.apu.audio_master_control = reset_bit(@, CH3_ENABLED_INDEX)]
        ELSE a1

set_ch4_envelope_settings(a, new_envelope_settings) ==
    LET should_disable == should_disable_dac(new_envelope_settings)
        a1 == [a EXCEPT !.apu.channel4.dac_enabled = ~should_disable]
    IN  IF should_disable
        THEN [a1 EXCEPT !.apu.channel4 = channel_disable(@),
                        !.apu.audio_master_control = reset_bit(@, CH4_ENABLED_INDEX)]
        ELSE a1

\* faulty variant: the whole written byte is stored
set_audio_master_control_unmasked(a, new_audio_master_control) ==
    LET a1 == [a EXCEPT !.apu.audio_master_control = new_audio_master_control]
        is_powered_off == ~is_bit_set(a1.apu.audio_master_control, APU_ENABLED_INDEX)
    IN  IF is_powered_off THEN [a1 EXCEPT !.apu = initialize_apu] ELSE a1

set_audio_master_control(a, new_audio_master_control) ==
    LET a1 == [a EXCEPT !.apu.audio_master_control =
                            (new_audio_master_control \div 16) * 16]
        is_powered_off == ~is_bit_set(a1.apu.audio_master_control, APU_ENABLED_INDEX)
    IN  IF is_powered_off THEN [a1 EXCEPT !.apu = initialize_apu] ELSE a1

(***************************************************************************)
(* emulator.rs: load_rom.  The cartridge's type code is read from the      *)
(* loaded header; the set of supported codes belongs to the memory map.    *)
(***************************************************************************)
cartridge_type_supported(cartridge_type) == cartridge_type \in cartridge.supported

load_rom(type_code) ==
    IF cartridge_type_supported(type_code) THEN "Ok" ELSE "Err"

(***************************************************************************)
(* Actions.                                                                *)
(***************************************************************************)
Install(s) ==
    /\ registers' = s.registers
    /\ clock' = s.clock
    /\ cpu_interrupts_enabled' = s.gate
    /\ interrupts' = s.interrupts
    /\ memory' = s.memory
    /\ in_bios' = s.in_bios
    /\ panicked' = s.panicked

\* one call of emulator::step
Tick(max) ==
    /\ ~panicked
    /\ ticks < max
    /\ LET s == emulator_step(Emu)
       IN  /\ Install(s)
           /\ last' = [ran |-> TRUE, before |-> Emu, after |-> s]
           /\ previous' = last
           /\ dispatch_log' = IF s.transfers > 0
                              THEN Append(dispatch_log, s.registers.program_counter)
                              ELSE dispatch_log
    /\ ticks' = ticks + 1
    /\ loaded' = FALSE
    /\ UNCHANGED <<overflow_checks, raised, start>>
    /\ UNCHANGED apu_vars

\* bytes that follow the opcode in the instruction stream
OperandBytes(opcode) ==
    IF opcode \in {1, 8, 17, 33, 49, 234, 250} THEN 2
    ELSE IF opcode \in {6, 14, 22, 30, 38, 46, 54, 62, 224, 240, 248} THEN 1
    ELSE 0

\* the memory holds an instruction at the program counter: its opcode and
\* the operand bytes the opcode takes
LoadInstruction(opcodes, operands) ==
    /\ ~panicked
    /\ ~loaded
    /\ \E opcode \in opcodes :
       \E first \in (IF OperandBytes(opcode) >= 1 THEN operands ELSE {0}) :
       \E second \in (IF OperandBytes(opcode) >= 2 THEN operands ELSE {0}) :
          LET pc == registers.program_counter
              m1 == write_byte(memory, pc, opcode)
              m2 == IF OperandBytes(opcode) >= 1
                    THEN write_byte(m1, Wrap16(pc + 1), first) ELSE m1
              m3 == IF OperandBytes(opcode) >= 2
                    THEN write_byte(m2, Wrap16(pc + 2), second) ELSE m2
          IN  memory' = m3
    /\ loaded' = TRUE
    /\ UNCHANGED <<registers, clock, cpu_interrupts_enabled, interrupts, in_bios,
                   panicked, overflow_checks, ticks, last, previous, dispatch_log,
                   raised, start>>
    /\ UNCHANGED apu_vars

\* a collaborator sets the pending bit of a source
RequestInterrupt ==
    /\ ~panicked
    /\ ~raised
    /\ \E bit \in 0..4 :
          /\ Bit(interrupts.flags, bit) = 0
          /\ interrupts' = [interrupts EXCEPT !.flags = @ + 2 ^ bit]
    /\ raised' = TRUE
    /\ UNCHANGED <<registers, clock, cpu_interrupts_enabled, memory, in_bios,
                   panicked, overflow_checks, ticks, loaded, last, previous,
                   dispatch_log, start>>
    /\ UNCHANGED apu_vars

\* software sets the global gate again
EnableInterrupts ==
    /\ ~panicked
    /\ ~cpu_interrupts_enabled
    /\ cpu_interrupts_enabled' = TRUE
    /\ UNCHANGED <<registers, clock, interrupts, memory, in_bios, panicked,
                   overflow_checks, ticks, loaded, last, previous, dispatch_log,
                   raised, start>>
    /\ UNCHANGED apu_vars

(***************************************************************************)
(* Initial states: the state after construction and states the machine     *)
(* runs into, drawn from small sets.                                       *)
(***************************************************************************)
NoTick == [ran |-> FALSE, before |-> Emu, after |-> Emu]

\* what an APU operation works on: the APU, the divider and the cycle count
\* of the tick, the channels its clocks expire, and what it has done so far
ApuRec(state, divider, cycles, expiring) ==
    [apu |-> state, divider |-> divider, cycles |-> cycles, expiring |-> expiring,
     panicked |-> FALSE, underflowed |-> FALSE, decrements |-> 0,
     advanced |-> 0, length_clocked |-> 0, sweep_clocked |-> 0,
     envelope_clocked |-> 0, enqueued |-> 0]

NoApuOperation(state, divider) ==
    [name |-> "none", value |-> 0,
     before |-> ApuRec(state, divider, 0, FALSE),
     after |-> ApuRec(state, divider, 0, FALSE)]

\* the type codes the memory map accepts, in three sizes
SupportedTypes(i) ==
    IF i = 0 THEN {0} ELSE IF i = 1 THEN {0, 1, 2, 3} ELSE {0, 1, 2, 3, 5, 6}

\* no cartridge has been offered yet
NoCartridge(i) == [supported |-> SupportedTypes(i), type_code |-> 0, result |-> "none"]

\* the audio unit and the timers after construction
InitAudio ==
    /\ apu = initialize_apu
    /\ timers = [divider |-> 0]
    /\ apu_steps = 0
    /\ apu_last = NoApuOperation(initialize_apu, 0)
    /\ advance_log = <<>>

\* the audio unit, the timers and the cartridge slot after construction
InitCollaborators ==
    /\ InitAudio
    /\ cartridge = NoCartridge(0)

InitWith(pcs, sps, bytes, flag_bytes, enabled_masks, pending_masks, gates) ==
    /\ \E pc \in pcs, sp \in sps, x \in bytes, y \in bytes, flag \in flag_bytes :
          registers = [a |-> x, f |-> flag, b |-> y, c |-> 19, d |-> 0, e |-> x,
                       h |-> 192, l |-> y,
                       program_counter |-> pc, stack_pointer |-> sp]
    /\ clock = 0
    /\ cpu_interrupts_enabled \in gates
    /\ \E enabled \in enabled_masks, flags \in pending_masks :
          interrupts = [enabled |-> enabled, flags |-> flags]
    /\ memory = <<>>
    /\ in_bios = TRUE
    /\ panicked = FALSE
    /\ overflow_checks \in BOOLEAN
    /\ ticks = 0
    /\ loaded = FALSE
    /\ last = NoTick
    /\ previous = NoTick
    /\ dispatch_log = <<>>
    /\ raised = FALSE
    /\ start = interrupts
    /\ InitCollaborators

\* the interrupt controller in the tick: every shape of the two masks
Init ==
    InitWith({4660}, {65534, 1}, {1}, {176}, {0, 31, 224, 255, 26},
             {0, 31, 224, 255, 12, 240}, BOOLEAN)

Next ==
    \/ Tick(MaxTicks)
    \/ LoadInstruction({62, 197}, {171})
    \/ RequestInterrupt
    \/ EnableInterrupts

Spec == Init /\ [][Next]_vars

\* pending sources served one after another, the gate set again in between
InitPriority ==
    InitWith({256}, {65534}, {1}, {176}, {31, 255, 26}, {31, 255, 26}, {TRUE})

NextPriority ==
    \/ Tick(MaxChainTicks)
    \/ RequestInterrupt
    \/ EnableInterrupts

SpecPriority == InitPriority /\ [][NextPriority]_vars

\* the stack and the instruction fetch at the edges of the address space;
\* no interrupt is enabled
PushOpcodes == {197, 213, 229, 245}

PopOpcodes == {193, 209, 225, 241}

InitStack ==
    InitWith({256, 65533, 65534, 65535}, {0, 1, 2, 49152, 65534, 65535},
             {171}, {0, 176}, {0}, {0}, {FALSE})

NextStack ==
    \/ Tick(MaxStackTicks)
    \/ LoadInstruction({0, 1, 62, 193, 197, 209, 213, 225, 229, 241, 245}, {52})

SpecStack == InitStack /\ [][NextStack]_vars

\* initial states without interrupts: the register file drawn from the given
\* program counters, stack pointers, HL values and flag bytes
InitOps(pcs, sps, hls, flag_bytes) ==
    /\ \E pc \in pcs, sp \in sps, hl \in hls, flag \in flag_bytes :
          registers = [a |-> 171, f |-> flag, b |-> 18, c |-> 19, d |-> 86, e |-> 120,
                       h |-> HighByte(hl), l |-> LowByte(hl),
                       program_counter |-> pc, stack_pointer |-> sp]
    /\ clock = 0
    /\ cpu_interrupts_enabled = FALSE
    /\ interrupts = [enabled |-> 0, flags |-> 0]
    /\ memory = <<>>
    /\ in_bios = TRUE
    /\ panicked = FALSE
    /\ overflow_checks \in BOOLEAN
    /\ ticks = 0
    /\ loaded = FALSE
    /\ last = NoTick
    /\ previous = NoTick
    /\ dispatch_log = <<>>
    /\ raised = FALSE
    /\ start = interrupts
    /\ InitCollaborators

\* opcode 0xF8 over stack pointers and signed immediates around the nibble,
\* byte and word boundaries
InitAdd ==
    InitOps({256}, {0, 5, 8, 15, 16, 127, 128, 240, 255, 256, 4088, 4095,
                    32768, 49392, 65280, 65535}, {49374}, {0, 240})

NextAdd ==
    \/ Tick(MaxAddTicks)
    \/ LoadInstruction({248}, {0, 1, 8, 15, 16, 17, 112, 127, 128, 129, 136, 240,
                              241, 248, 251, 255})

SpecAdd == InitAdd /\ [][NextAdd]_vars

\* the HL post-increment/post-decrement forms and the 16-bit immediate loads,
\* with HL at both ends of the address space and on the instruction itself
HlStepOpcodes == {34, 42, 50, 58}
WordLoadOpcodes == {1, 17, 33, 49}

InitLoad == InitOps({256}, {65534}, {0, 256, 49374, 65535}, {176})

NextLoad ==
    \/ Tick(MaxLoadTicks)
    \/ LoadInstruction({1, 17, 33, 34, 42, 49, 50, 58}, {18, 52})

SpecLoad == InitLoad /\ [][NextLoad]_vars

\* every byte value as the opcode, from a register file in the middle of the
\* address space and from ones with the stack pointer, HL and the program
\* counter at its ends
InitTable ==
    \/ InitOps({256}, {65534}, {49374}, {0, 176})
    \/ InitOps({256}, {0}, {65535}, {176})
    \/ InitOps({65535}, {49152}, {0}, {176})

\* an instruction is placed only while a tick remains to execute it
LoadForTick(max, opcodes, operands) ==
    /\ ticks < max
    /\ LoadInstruction(opcodes, operands)

NextTable ==
    \/ Tick(MaxTableTicks)
    \/ LoadForTick(MaxTableTicks, 0..255, {52})

SpecTable == InitTable /\ [][NextTable]_vars

(***************************************************************************)
(* The audio unit: register writes of the memory map and the step that     *)
(* emulator::sync runs after the timers.                                   *)
(***************************************************************************)
MaxApuOps == 4

MaxFrameSteps == 18

MaxRomTicks == 1

cpu_vars == <<registers, clock, cpu_interrupts_enabled, interrupts, memory, in_bios,
              overflow_checks, ticks, loaded, last, previous, dispatch_log, raised,
              start>>

\* the result r of operation `name` on a becomes the state
ApuInstall(name, value, a, r) ==
    /\ apu' = r.apu
    /\ panicked' = r.panicked
    /\ apu_last' = [name |-> name, value |-> value, before |-> a, after |-> r]
    /\ apu_steps' = apu_steps + 1
    /\ UNCHANGED cpu_vars
    /\ UNCHANGED cartridge

\* the latest eight advances of the DIV-APU counter
Latest(log) == IF Len(log) > 8 THEN Tail(log) ELSE log

\* emulator::sync as far as the audio unit sees it: the timers leave a
\* divider value, the tick its cycle count
Sync(max, dividers, cycle_counts, expirings) ==
    /\ ~panicked
    /\ apu_steps < max
    /\ \E divider \in dividers, cycles \in cycle_counts, expiring \in expirings :
          LET a == ApuRec(apu, divider, cycles, expiring)
              r == apu_step(a)
          IN  /\ ApuInstall("step", cycles, a, r)
              /\ timers' = [divider |-> divider]
              /\ advance_log' =
                    IF r.advanced > 0
                    THEN Latest(Append(advance_log,
                                       [at |-> a.apu.divider_apu,
                                        length |-> r.length_clocked,
                                        sweep |-> r.sweep_clocked,
                                        envelope |-> r.envelope_clocked]))
                    ELSE advance_log

\* a write that leaves the timers and the advance log alone
ApuWrite(max, name, value, r) ==
    /\ ~panicked
    /\ apu_steps < max
    /\ ApuInstall(name, value, ApuRec(apu, timers.divider, 0, FALSE), r)
    /\ UNCHANGED <<timers, advance_log>>

SetCh3DacEnabled(max, values) ==
    \E value \in values :
       ApuWrite(max, "set_ch3_dac_enabled", value,
                set_ch3_dac_enabled(ApuRec(apu, timers.divider, 0, FALSE), value))

SetCh3PeriodHigh(max, values) ==
    \E value \in values :
       ApuWrite(max, "set_ch3_period_high", value,
                set_ch3_period_high(ApuRec(apu, timers.divider, 0, FALSE), value))

SetAudioMasterControl(max, values) ==
    \E value \in values :
       ApuWrite(max, "set_audio_master_control", value,
                set_audio_master_control(ApuRec(apu, timers.divider, 0, FALSE), value))

\* the audio unit alone; the processor stands still
InitApu ==
    InitOps({256}, {65534}, {49374}, {176})

NextApu ==
    \/ Sync(MaxApuOps, {0, 1, 240, 255}, {0, 4, 84, 168}, {FALSE})
    \/ SetCh3DacEnabled(MaxApuOps, {0, 128})
    \/ SetCh3PeriodHigh(MaxApuOps, {0, 128})
    \/ SetAudioMasterControl(MaxApuOps, {15, 128, 255})

SpecApu == InitApu /\ [][NextApu]_vars

\* emulator::load_rom on a buffer whose header carries type_code
LoadRom(type_codes) ==
    /\ ~panicked
    /\ cartridge.result = "none"
    /\ \E type_code \in type_codes :
          cartridge' = [cartridge EXCEPT !.type_code = type_code,
                                         !.result = load_rom(type_code)]
    /\ UNCHANGED cpu_vars
    /\ UNCHANGED <<panicked, apu, timers, apu_steps, apu_last, advance_log>>

\* the processor after construction, at one of the given addresses
InitProcessor(pcs) ==
    /\ \E pc \in pcs :
          registers = [a |-> 171, f |-> 176, b |-> 18, c |-> 19, d |-> 86, e |-> 120,
                       h |-> 192, l |-> 222,
                       program_counter |-> pc, stack_pointer |-> 65534]
    /\ clock = 0
    /\ cpu_interrupts_enabled = FALSE
    /\ interrupts = [enabled |-> 0, flags |-> 0]
    /\ memory = <<>>
    /\ in_bios = TRUE
    /\ panicked = FALSE
    /\ overflow_checks \in BOOLEAN
    /\ ticks = 0
    /\ loaded = FALSE
    /\ last = NoTick
    /\ previous = NoTick
    /\ dispatch_log = <<>>
    /\ raised = FALSE
    /\ start = interrupts

\* a cartridge is offered to the machine before or between ticks; the memory
\* map accepts one of three sets of type codes
InitRom ==
    /\ InitProcessor({256, 65535})
    /\ InitAudio
    /\ \E i \in 0..2 : cartridge = NoCartridge(i)

NextRom ==
    \/ Tick(MaxRomTicks)
    \/ LoadForTick(MaxRomTicks, {0, 62, 197}, {52})
    \/ LoadRom({0, 1, 4, 252})

SpecRom == InitRom /\ [][NextRom]_vars

\* the audio unit in the middle of a run: powered on, the four channels
\* triggered with their DACs on, the wave channel's divider reloaded and its
\* length timer at `timer`
FrameStart(timer, period_high) ==
    LET a0 == ApuRec(initialize_apu, 0, 0, FALSE)
        a1 == set_audio_master_control(a0, 128)
        a2 == set_ch4_envelope_settings(
                  set_ch3_dac_enabled(
                      set_ch2_envelope_settings(
                          set_ch1_envelope_settings(a1, 240), 240), 128), 240)
        a3 == set_ch4_control(
                  set_ch3_period_high(
                      set_ch2_period_high(
                          set_ch1_period_high(a2, 128), 128), period_high), 128)
    IN  [a3.apu EXCEPT !.channel3.length.timer = timer,
                       !.channel3.period.divider =
                           calculate_period_divider(a3.apu.channel3.period)]

InitFrame ==
    /\ InitProcessor({256})
    /\ \E timer \in {1, 2, 256}, period_high \in {128, 192} :
          /\ apu = FrameStart(timer, period_high)
          /\ apu_last = NoApuOperation(apu, 0)
    /\ timers = [divider |-> 0]
    /\ apu_steps = 0
    /\ advance_log = <<>>
    /\ cartridge = NoCartridge(0)

NextFrame ==
    Sync(MaxFrameSteps, {1, 16}, {4}, BOOLEAN)

SpecFrame == InitFrame /\ [][NextFrame]_vars

(***************************************************************************)
(* Vocabulary of the properties: the last tick, read from `last`.          *)
(***************************************************************************)
Before == last.before

After == last.after

\* the sources (bits 0..4) both enabled and pending in s
PendingEnabled(s) ==
    {i \in 0..4 : Bit(s.interrupts.enabled, i) = 1 /\ Bit(s.interrupts.flags, i) = 1}

Lowest(set) == CHOOSE i \in set : \A j \in set : i <= j

ServiceAddress(i) == 64 + 8 * i

\* the last tick transferred control to a service routine
Dispatched == last.ran /\ After.transfers > 0

\* the tick met a set gate and a source enabled and pending
MustDispatch == last.ran /\ Before.gate /\ PendingEnabled(Before) # {}

(***************************************************************************)
(* C1: with the gate set and a source enabled and pending, the tick        *)
(* services the lowest-numbered such source: its pending bit is cleared    *)
(* and the program counter is its service address 0x40 + 8 * i.            *)
(***************************************************************************)
C1_LowestSourceServiced ==
    MustDispatch =>
        LET i == Lowest(PendingEnabled(Before))
        IN  /\ After.transfers = 1
            /\ Bit(After.interrupts.flags, i) = 0
            /\ After.registers.program_counter = ServiceAddress(i)
            /\ (Before.interrupts.enabled = 31 /\ Before.interrupts.flags = 31
                    => After.registers.program_counter = 64)

\* bit 3 is the lowest common bit of enabled 0x1A and flags 0x0C
C1_Witness ==
    /\ MustDispatch
    /\ Before.interrupts.enabled = 26
    /\ Before.interrupts.flags = 12
    /\ After.registers.program_counter = 88

(***************************************************************************)
(* C2: a dispatching tick clears the gate and exactly the serviced         *)
(* source's bit of flags; every other bit of flags and the whole enabled   *)
(* mask keep their values.                                                 *)
(***************************************************************************)
C2_DispatchFrame ==
    Dispatched =>
        /\ After.gate = FALSE
        /\ After.interrupts.enabled = Before.interrupts.enabled
        /\ \E i \in 0..4 :
              /\ After.registers.program_counter = ServiceAddress(i)
              /\ Bit(Before.interrupts.flags, i) = 1
              /\ After.interrupts.flags = Before.interrupts.flags - 2 ^ i

\* bits 5-7 and lower-priority bits were pending and stay so
C2_Witness ==
    /\ Dispatched
    /\ Before.interrupts.flags = 255
    /\ After.interrupts.flags = 254
    /\ After.interrupts.enabled = 255

(***************************************************************************)
(* C3: with the gate unset the tick transfers nothing, whatever the masks: *)
(* enabled, flags and the gate keep their values and the tick is exactly   *)
(* one opcode dispatch from a zeroed clock.                                *)
(***************************************************************************)
C3_GateUnsetNoTransfer ==
    (last.ran /\ ~Before.gate) =>
        /\ After.transfers = 0
        /\ After.interrupts = Before.interrupts
        /\ After.gate = Before.gate
        /\ After.fetched = 1
        /\ After = execute_opcode([Before EXCEPT !.clock = 0,
                                                 !.in_bios = After.in_bios])
        /\ (After.opcode = 62 =>
               /\ After.registers.stack_pointer = Before.registers.stack_pointer
               /\ After.memory = Before.memory)

\* every source enabled and pending, gate unset, an immediate load ran
C3_Witness ==
    /\ last.ran
    /\ ~Before.gate
    /\ Before.interrupts.enabled = 255
    /\ Before.interrupts.flags = 31
    /\ After.opcode = 62
    /\ After.registers.a = 171

(***************************************************************************)
(* C4: a tick either dispatches a service routine and fetches no opcode,   *)
(* or dispatches nothing and fetches exactly one opcode.                   *)
(***************************************************************************)
C4_DispatchOrOneOpcode ==
    last.ran =>
        \/ After.transfers = 1 /\ After.fetched = 0
        \/ After.transfers = 0 /\ After.fetched = 1

\* a push instruction stood at the program counter and the tick dispatched
C4_Witness ==
    /\ Dispatched
    /\ read_byte(Before.memory, Before.registers.program_counter) = 197
    /\ After.fetched = 0
    /\ After.registers.b = Before.registers.b

(***************************************************************************)
(* C5: lower-priority sources are not lost.  A dispatch leaves every other *)
(* pending bit pending; as long as no new request is raised the pending    *)
(* bits are the initial ones less the serviced ones and the dispatches go  *)
(* to ascending service addresses; from enabled = flags = 0x1F (low five   *)
(* bits) the dispatches are 0x40, 0x48, 0x50, 0x58, 0x60 in that order,    *)
(* and after the fifth flags & 0x1F = 0.                                   *)
(***************************************************************************)
LowBits(mask) == {i \in 0..4 : Bit(mask, i) = 1}

Serviced == {i \in 0..4 : \E k \in 1..Len(dispatch_log) : dispatch_log[k] = ServiceAddress(i)}

C5_LowerPriorityNotLost ==
    /\ Dispatched =>
          \A j \in LowBits(Before.interrupts.flags) :
              After.registers.program_counter # ServiceAddress(j)
                  => Bit(After.interrupts.flags, j) = 1
    /\ ~raised =>
          /\ LowBits(interrupts.flags) = LowBits(start.flags) \ Serviced
          /\ Serviced \subseteq LowBits(start.enabled)
          /\ \A k \in 1..(Len(dispatch_log) - 1) : dispatch_log[k] < dispatch_log[k + 1]
          /\ Cardinality(Serviced) = Len(dispatch_log)
    /\ (~raised /\ LowBits(start.enabled) = 0..4 /\ LowBits(start.flags) = 0..4) =>
          /\ Len(dispatch_log) <= 5
          /\ dispatch_log = SubSeq(<<64, 72, 80, 88, 96>>, 1, Len(dispatch_log))
          /\ (Len(dispatch_log) = 5 => BitAnd(interrupts.flags, 31) = 0)

\* all five sources served in priority order, nothing left pending
C5_Witness ==
    /\ ~raised
    /\ start.enabled = 31
    /\ start.flags = 31
    /\ dispatch_log = <<64, 72, 80, 88, 96>>
    /\ BitAnd(interrupts.flags, 31) = 0

(***************************************************************************)
(* C6: bits 5-7 of the masks never cause a dispatch.  With the gate set    *)
(* and no source among bits 0..4 both enabled and pending, the controller  *)
(* transfers nothing and leaves the masks, the gate, the stack pointer and *)
(* the program counter to the opcode that runs; from the power-on masks    *)
(* (both zero, gate disabled) nothing is dispatched.                       *)
(***************************************************************************)
C6_HighBitsNeverDispatch ==
    /\ (last.ran /\ Before.gate /\ PendingEnabled(Before) = {}) =>
          /\ After.transfers = 0
          /\ After.interrupts = Before.interrupts
          /\ After.gate = Before.gate
          /\ After = execute_opcode([Before EXCEPT !.clock = 0,
                                                   !.in_bios = After.in_bios])
    /\ (last.ran /\ ~Before.gate /\ Before.interrupts = [enabled |-> 0, flags |-> 0]) =>
          After.transfers = 0

\* bits 5-7 set in both masks, gate set, no transfer
C6_Witness ==
    /\ last.ran
    /\ Before.gate
    /\ Before.interrupts.enabled = 224
    /\ Before.interrupts.flags = 255
    /\ After.transfers = 0
    /\ After.gate

(***************************************************************************)
(* C7: dispatch pushes the pre-dispatch program counter to descending      *)
(* addresses: the stack pointer ends at the old value minus 2 modulo       *)
(* 65536, the high byte of the old program counter is at the new SP + 1    *)
(* and its low byte at the new SP.                                         *)
(***************************************************************************)
C7_DispatchPushesProgramCounter ==
    Dispatched =>
        LET sp == After.registers.stack_pointer
            pc == Before.registers.program_counter
        IN  /\ sp = (Before.registers.stack_pointer + 65534) % 65536
            /\ read_byte(After.memory, (sp + 1) % 65536) = pc \div 256
            /\ read_byte(After.memory, sp) = pc % 256

\* the push wraps: SP 0x0001 -> 0xFFFF, return address 0x1234
C7_Witness ==
    /\ Dispatched
    /\ Before.registers.stack_pointer = 1
    /\ After.registers.stack_pointer = 65535
    /\ Before.registers.program_counter = 4660
    /\ read_byte(After.memory, 0) = 18
    /\ read_byte(After.memory, 65535) = 52

(***************************************************************************)
(* C8: the cycle counter is zeroed at the start of every tick: after a     *)
(* dispatching tick it is the one fixed dispatch cost (two stack writes    *)
(* and one internal cycle) whatever the source, after any other tick it is *)
(* the cost of the opcode run from a zeroed counter.                       *)
(***************************************************************************)
C8_ClockPerTick ==
    last.ran =>
        /\ After.transfers > 0 => After.clock = 3 * MachineCycle
        /\ After.transfers = 0 =>
              After.clock = execute_opcode([Before EXCEPT !.clock = 0]).clock

\* a second tick, the counter non-zero before it, dispatching the lowest-priority source
C8_Witness ==
    /\ Dispatched
    /\ Before.clock > 0
    /\ After.registers.program_counter = 96
    /\ After.clock = 3 * MachineCycle

(***************************************************************************)
(* C9: program counter and stack pointer arithmetic wraps modulo 65536     *)
(* without fault.  No tick faults; an opcode or operand byte fetched at    *)
(* 0xFFFF leaves the program counter at 0x0000 and a word fetched at       *)
(* 0xFFFF leaves it at 0x0001; a push ends with the stack pointer at the   *)
(* old value minus 2 and a pop at the old value plus 2, both modulo 65536, *)
(* the push having written at the wrapped addresses.                       *)
(***************************************************************************)
C9_WrapsWithoutFault ==
    (last.ran /\ After.transfers = 0) =>
        LET pc == Before.registers.program_counter
            sp == Before.registers.stack_pointer
            high == Before.registers[IF After.opcode = 197 THEN "b" ELSE "a"]
        IN  /\ ~After.panicked
            /\ After.registers.program_counter =
                   (pc + 1 + OperandBytes(After.opcode)) % 65536
            /\ After.opcode \in PushOpcodes =>
                  After.registers.stack_pointer = (sp + 65534) % 65536
            /\ After.opcode \in {197, 245} =>
                  read_byte(After.memory, (sp + 65535) % 65536) = high
            /\ After.opcode \in PopOpcodes =>
                  After.registers.stack_pointer = (sp + 2) % 65536

(***************************************************************************)
(* C10: for each pair BC, DE, HL, AF and every starting stack pointer, the *)
(* push opcode of the pair completes, and when the pop opcode of the same  *)
(* pair runs next, the stack cells untouched in between, the pair holds    *)
(* its original value and the stack pointer its original value.            *)
(***************************************************************************)
PairOf(opcode) ==
    CASE opcode \in {193, 197} -> REGISTER_BC
      [] opcode \in {209, 213} -> REGISTER_DE
      [] opcode \in {225, 229} -> REGISTER_HL
      [] opcode \in {241, 245} -> REGISTER_AF

\* the last two ticks ran the push and then the pop of one pair, and nothing
\* else wrote to the two stack cells in between
PushThenPop ==
    /\ previous.ran
    /\ last.ran
    /\ previous.after.opcode \in PushOpcodes
    /\ After.opcode = previous.after.opcode - 4
    /\ \A k \in 1..2 :
          LET cell == (previous.before.registers.stack_pointer + 65536 - k) % 65536
          IN  read_byte(Before.memory, cell) = read_byte(previous.after.memory, cell)

C10_PushPopRoundTrip ==
    /\ (last.ran /\ After.opcode \in PushOpcodes) => ~After.panicked
    /\ PushThenPop =>
          /\ ~After.panicked
          /\ read_from_register_pair(After, PairOf(After.opcode)) =
                 read_from_register_pair(previous.before, PairOf(After.opcode))
          /\ After.registers.stack_pointer = previous.before.registers.stack_pointer

(***************************************************************************)
(* C11: a push of a pair holding W with stack pointer S writes the high    *)
(* byte of W at S-1 and the low byte at S-2 (mod 65536), leaves the stack  *)
(* pointer at S-2 and changes neither the pushed pair nor any flag.        *)
(***************************************************************************)
C11_PushLayout ==
    (last.ran /\ After.opcode \in PushOpcodes) =>
        LET pair == PairOf(After.opcode)
            word == read_from_register_pair(Before, pair)
            sp == Before.registers.stack_pointer
        IN  /\ ~After.panicked
            /\ read_byte(After.memory, (sp + 65535) % 65536) = word \div 256
            /\ read_byte(After.memory, (sp + 65534) % 65536) = word % 256
            /\ After.registers.stack_pointer = (sp + 65534) % 65536
            /\ read_from_register_pair(After, pair) = word
            /\ After.registers.f = Before.registers.f

(***************************************************************************)
(* C12: in every reachable state the bottom four bits of the flag register *)
(* are zero, also after popping a word with a non-zero low nibble into AF. *)
(***************************************************************************)
C12_FlagLowNibbleZero ==
    /\ registers.f % 16 = 0
    /\ last.ran => After.registers.f % 16 = 0

\* pop AF of a word whose low byte 0x13 has a non-zero low nibble
C12_Witness ==
    /\ last.ran
    /\ After.opcode = 241
    /\ ~After.panicked
    /\ read_byte(Before.memory, Before.registers.stack_pointer) = 19
    /\ After.registers.f = 16
    /\ After.registers.a = 171

(***************************************************************************)
(* C13: opcode 0xF8 with stack pointer S and signed immediate e stores     *)
(* (S + e) mod 65536 into HL and leaves the stack pointer unchanged; Zero  *)
(* and Subtract are cleared, Half-carry is set iff (sum & 0xF) < (S & 0xF) *)
(* and Carry iff (sum & 0xFF) < (S & 0xFF), which is the carry out of bit  *)
(* 3 and of bit 7 of adding the unsigned immediate byte to the low byte of *)
(* S.  S = 0x0005, e = 0xFF gives 0x0004 with both flags set.              *)
(***************************************************************************)
Flag(s, index) == Bit(s.registers.f, index) = 1

\* the operand byte that followed the opcode of the last tick
Immediate == read_byte(Before.memory, (Before.registers.program_counter + 1) % 65536)

C13_StackPointerPlusImmediate ==
    (last.ran /\ After.opcode = 248) =>
        LET S == Before.registers.stack_pointer
            e == IF Immediate >= 128 THEN Immediate - 256 ELSE Immediate
            sum == (S + e + 65536) % 65536
        IN  /\ ~After.panicked
            /\ After.registers.h * 256 + After.registers.l = sum
            /\ After.registers.stack_pointer = S
            /\ ~Flag(After, 7)
            /\ ~Flag(After, 6)
            /\ Flag(After, 5) <=> (sum % 16) < (S % 16)
            /\ Flag(After, 4) <=> (sum % 256) < (S % 256)
            /\ Flag(After, 5) <=> (S % 16) + (Immediate % 16) >= 16
            /\ Flag(After, 4) <=> (S % 256) + Immediate >= 256
            /\ (S = 5 /\ Immediate = 255) =>
                  (sum = 4 /\ After.registers.f = 48)

\* S = 0x0005, e = -1, all four flags set before
C13_Witness ==
    /\ last.ran
    /\ After.opcode = 248
    /\ Before.registers.stack_pointer = 5
    /\ Before.registers.f = 240
    /\ Immediate = 255
    /\ After.registers.h = 0
    /\ After.registers.l = 4
    /\ After.registers.f = 48

(***************************************************************************)
(* C14: opcodes 0x22, 0x2A, 0x32, 0x3A access memory at the pre-update HL  *)
(* address and afterwards leave HL holding address + 1 or address - 1      *)
(* modulo 65536, including HL = 0xFFFF for the increment forms and         *)
(* HL = 0x0000 for the decrement forms; for 0x2A register A holds the byte *)
(* read at the pre-increment address.                                      *)
(***************************************************************************)
HL(s) == s.registers.h * 256 + s.registers.l

C14_HlPostUpdate ==
    (last.ran /\ After.opcode \in HlStepOpcodes) =>
        LET address == HL(Before)
            delta == IF After.opcode \in {34, 42} THEN 1 ELSE 65535
        IN  /\ ~After.panicked
            /\ HL(After) = (address + delta) % 65536
            /\ After.opcode \in {34, 50} =>
                  /\ read_byte(After.memory, address) = Before.registers.a
                  /\ After.registers.a = Before.registers.a
            /\ After.opcode \in {42, 58} =>
                  /\ After.registers.a = read_byte(Before.memory, address)
                  /\ After.memory = Before.memory

(***************************************************************************)
(* C19: opcodes 0x01, 0x11, 0x21, 0x31 combine the two bytes following the *)
(* opcode little-endian: the byte at opcode address + 1 becomes the low    *)
(* byte and the byte at opcode address + 2 the high byte of BC, DE, HL or  *)
(* the stack pointer, and the program counter ends three past the opcode   *)
(* address.                                                                *)
(***************************************************************************)
\* the 16-bit register an immediate word load targets
WordTarget(s, opcode) ==
    CASE opcode = 1  -> s.registers.b * 256 + s.registers.c
      [] opcode = 17 -> s.registers.d * 256 + s.registers.e
      [] opcode = 33 -> HL(s)
      [] opcode = 49 -> s.registers.stack_pointer

\* the byte at the given distance past the opcode of the last tick
OperandAt(n) == read_byte(Before.memory, (Before.registers.program_counter + n) % 65536)

C19_WordImmediateLittleEndian ==
    (last.ran /\ After.opcode \in WordLoadOpcodes) =>
        /\ ~After.panicked
        /\ WordTarget(After, After.opcode) % 256 = OperandAt(1)
        /\ WordTarget(After, After.opcode) \div 256 = OperandAt(2)
        /\ After.registers.program_counter =
              (Before.registers.program_counter + 3) % 65536

\* 0x21 followed by 0x12, 0x34 leaves HL = 0x3412
C19_Witness ==
    /\ last.ran
    /\ After.opcode = 33
    /\ OperandAt(1) = 18
    /\ OperandAt(2) = 52
    /\ After.registers.h = 52
    /\ After.registers.l = 18
    /\ After.registers.program_counter = Before.registers.program_counter + 3

(***************************************************************************)
(* C15: opcode 0x00 advances the program counter by exactly one and leaves *)
(* every register, every flag, the stack pointer and all of memory         *)
(* unchanged, and the tick's cycle count is the cost of one opcode fetch.  *)
(* Stated for the ticks that complete.                                     *)
(***************************************************************************)
\* the effect of an instruction that only consumes its opcode fetch
OnlyFetched ==
    /\ After.registers =
          [Before.registers EXCEPT !.program_counter = (@ + 1) % 65536]
    /\ After.memory = Before.memory
    /\ After.clock = MachineCycle
    /\ After.gate = Before.gate
    /\ After.interrupts = Before.interrupts

C15_NoOperation ==
    (last.ran /\ After.opcode = 0 /\ ~After.panicked) => OnlyFetched

C15_Witness ==
    /\ last.ran
    /\ After.opcode = 0
    /\ ~After.panicked
    /\ Before.registers.program_counter = 256
    /\ After.registers.program_counter = 257
    /\ After.registers.f = 176
    /\ After.clock = MachineCycle

(***************************************************************************)
(* C16: opcode dispatch is total: for every byte value 0..255 at the       *)
(* program counter execute_opcode completes without a fault, and for every *)
(* byte that has no assigned behaviour in the table the effect is that of  *)
(* opcode 0x00 (program counter + 1, fetch cost consumed, no other         *)
(* register, flag or memory change).                                       *)
(***************************************************************************)
\* the bytes with an arm of their own in `match opcode`
AssignedOpcodes ==
    {0, 1, 2, 6, 8, 10, 14, 17, 18, 22, 26, 30, 33, 34, 38, 42, 46, 49, 50, 54, 58, 62}
        \cup ((64..127) \ {118})
        \cup {193, 197, 209, 213, 224, 225, 226, 229, 234, 240, 241, 242, 245,
              248, 249, 250}

C16_DispatchTotal ==
    last.ran =>
        /\ ~After.panicked
        /\ After.fetched = 1
        /\ After.opcode \in 0..255
        /\ After.opcode \notin AssignedOpcodes => OnlyFetched

(***************************************************************************)
(* C17: of all opcodes of the dispatch table only 0xF8 and 0xF1 can change *)
(* any of the Zero, Subtract, Half-carry, Carry bits; every other opcode,  *)
(* including all loads, stores, pushes and the other pops, leaves the four *)
(* flags exactly as they were.                                             *)
(***************************************************************************)
C17_FlagsPreserved ==
    (last.ran /\ After.opcode \notin {241, 248}) =>
        After.registers.f = Before.registers.f

\* a move into A with Zero, Half-carry and Carry set before and after
C17_Witness ==
    /\ last.ran
    /\ After.opcode = 120
    /\ ~After.panicked
    /\ Before.registers.f = 176
    /\ After.registers.f = 176
    /\ After.registers.a = 18

(***************************************************************************)
(* C18: each register-to-register move opcode (0x40-0x7F except the        *)
(* HL-indirect slots) copies the source register into the destination      *)
(* register and changes nothing else except advancing the program counter  *)
(* by one: no memory write, no flag change, no change to the stack pointer *)
(* or to any other register; a move of a register to itself leaves the     *)
(* whole register file unchanged.  Stated for the ticks that complete.     *)
(***************************************************************************)
RegisterMoves == {op \in 64..127 : op % 8 # 6 /\ (op - 64) \div 8 # 6}

C18_RegisterMove ==
    (last.ran /\ After.opcode \in RegisterMoves /\ ~After.panicked) =>
        LET destination == RegisterSlot((After.opcode - 64) \div 8)
            source == RegisterSlot(After.opcode % 8)
        IN  /\ After.registers =
                  [Before.registers EXCEPT
                      ![destination] = Before.registers[source],
                      !.program_counter = (@ + 1) % 65536]
            /\ After.memory = Before.memory
            /\ After.clock = MachineCycle
            /\ source = destination =>
                  After.registers =
                      [Before.registers EXCEPT !.program_counter = (@ + 1) % 65536]

\* 0x41 (B <- C) with B = 0x12 and C = 0x13 before
C18_Witness ==
    /\ last.ran
    /\ After.opcode = 65
    /\ ~After.panicked
    /\ Before.registers.b = 18
    /\ Before.registers.c = 19
    /\ After.registers.b = 19
    /\ After.registers.c = 19

(***************************************************************************)
(* C20: extra internal cycles are charged exactly once and only by the     *)
(* stack push opcodes, opcode 0xF8 and opcode 0xF9: a push costs the fetch *)
(* plus two memory writes plus one extra cycle, a pop costs the fetch plus *)
(* two memory reads with no extra cycle, so for the same pair the push     *)
(* tick's cycle count exceeds the pop tick's by one extra-cycle charge.    *)
(* Stated for the ticks that complete.                                     *)
(***************************************************************************)
\* memory reads and writes of an instruction beyond its opcode and operand bytes
DataAccesses(opcode) ==
    IF opcode \in {8} \cup PushOpcodes \cup PopOpcodes THEN 2
    ELSE IF \/ opcode \in {2, 10, 18, 26, 34, 42, 50, 54, 58,
                            224, 226, 234, 240, 242, 250}
            \/ opcode \in (64..127) \ (RegisterMoves \cup {118})
    THEN 1
    ELSE 0

\* the opcodes that charge an internal cycle
ExtraCycles(opcode) == IF opcode \in PushOpcodes \cup {248, 249} THEN 1 ELSE 0

C20_ExtraCycleCharges ==
    (last.ran /\ ~After.panicked) =>
        /\ After.clock =
              (1 + OperandBytes(After.opcode) + DataAccesses(After.opcode)
                 + ExtraCycles(After.opcode)) * MachineCycle
        /\ After.opcode \in PushOpcodes => After.clock = 4 * MachineCycle
        /\ After.opcode \in PopOpcodes => After.clock = 3 * MachineCycle

\* push BC: the fetch, two writes and the internal cycle
C20_Witness ==
    /\ last.ran
    /\ After.opcode = 197
    /\ ~After.panicked
    /\ After.clock = 4 * MachineCycle
    /\ After.memory # Before.memory

(***************************************************************************)
(* The cartridge slot and the audio unit.                                  *)
(***************************************************************************)
\* load_rom has answered Ok for a supported type code and Err for any other
LoadRomAnswers ==
    cartridge.result # "none" =>
        /\ cartridge.result \in {"Ok", "Err"}
        /\ cartridge.result = "Ok" <=> cartridge.type_code \in cartridge.supported

\* C21: load_rom returns Ok exactly for a supported cartridge type and an
\* error value for any other; the rejection at load time is the only failure
\* of the machine: no tick and no opcode dispatch fails.
C21_LoadRomOnlyFailure ==
    /\ LoadRomAnswers
    /\ last.ran => ~After.panicked

\* the last operation on the audio unit, read from `apu_last`
ApuBefore == apu_last.before

ApuAfter == apu_last.after

\* the last operation was apu::step with the unit powered on
EnabledStep ==
    /\ apu_last.name = "step"
    /\ apu_enabled(ApuBefore.apu.audio_master_control)

\* ... and it ran to its end
CompletedStep == EnabledStep /\ ~ApuAfter.panicked

\* C22: the period divider never underflows: whenever period::step
\* decrements the divider it is at least 1, the first step of the wave
\* channel after a trigger from the power-on state included, and after the
\* step the divider lies in 1..2048.
C22_PeriodDividerNeverUnderflows ==
    (EnabledStep /\ ApuBefore.apu.channel3.enabled /\ ApuBefore.cycles >= 2) =>
        /\ ~ApuAfter.underflowed
        /\ ~ApuAfter.panicked
        /\ ApuAfter.apu.channel3.period.divider \in 1..2048

\* bit 4 of the timers' divider was 1 at the previous step and is 0 at this one
DividerBitFell ==
    /\ Bit(ApuBefore.apu.last_divider_time, 4) = 1
    /\ Bit(ApuBefore.divider, 4) = 0

\* C23: on a powered-on step the DIV-APU counter advances by one (mod 8)
\* exactly when bit 4 of timers.divider has fallen since the previous step,
\* the fall of a divider wrapping from 0xF0..0xFF to 0x00 included, and
\* last_divider_time equals timers.divider after the step.
C23_DivApuAdvancesOnFallingBit ==
    CompletedStep =>
        /\ ApuAfter.apu.divider_apu =
              IF DividerBitFell THEN (ApuBefore.apu.divider_apu + 1) % 8
              ELSE ApuBefore.apu.divider_apu
        /\ ApuAfter.apu.last_divider_time = ApuBefore.divider

\* the advances in the log at which a clock fired
Clocked(field) == {i \in 1..Len(advance_log) : advance_log[i][field] = 1}

C25_Ch3StatusOnlyWhileEnabled ==
    ~panicked =>
        (is_bit_set(apu.audio_master_control, CH3_ENABLED_INDEX) => apu.channel3.enabled)

\* the status bit of a channel is clear in the state a
StatusClear(a, index) == ~is_bit_set(a.apu.audio_master_control, index)

\* the step's length clock brought the wave channel's timer to zero
WaveLengthExpired ==
    /\ ApuBefore.apu.channel3.length.timer > 0
    /\ ApuAfter.apu.channel3.length.timer = 0

\* C26: after a powered-on step in which the DIV-APU counter advanced, every
\* disabled channel has its status bit (bits 0-3 of audio_master_control)
\* clear; a length clock that brings channel 3's timer to 0 disables the
\* channel and clears its bit in that same step; the step leaves bits 4-7
\* as they were.
C26_StatusFollowsChannels ==
    CompletedStep =>
        /\ ApuAfter.advanced > 0 =>
              /\ ~ApuAfter.apu.channel1.enabled => StatusClear(ApuAfter, CH1_ENABLED_INDEX)
              /\ ~ApuAfter.apu.channel2.enabled => StatusClear(ApuAfter, CH2_ENABLED_INDEX)
              /\ ~ApuAfter.apu.channel3.enabled => StatusClear(ApuAfter, CH3_ENABLED_INDEX)
              /\ ~ApuAfter.apu.channel4.enabled => StatusClear(ApuAfter, CH4_ENABLED_INDEX)
        /\ WaveLengthExpired =>
              /\ ApuAfter.advanced > 0
              /\ ~ApuAfter.apu.channel3.enabled
              /\ StatusClear(ApuAfter, CH3_ENABLED_INDEX)
        /\ ApuAfter.apu.audio_master_control \div 16 =
              ApuBefore.apu.audio_master_control \div 16

\* the wave channel, enabled with its status bit set, expires in a step that
\* also expires channel 4
C26_Witness ==
    /\ CompletedStep
    /\ WaveLengthExpired
    /\ ApuBefore.apu.channel3.enabled
    /\ ~StatusClear(ApuBefore, CH3_ENABLED_INDEX)
    /\ ApuBefore.apu.channel4.enabled
    /\ ~ApuAfter.apu.channel4.enabled
    /\ ApuBefore.apu.audio_master_control = 128 + 15
    /\ ApuAfter.apu.audio_master_control = 128

\* samples the last operation appended to a queue
Grown(queue) == Len(ApuAfter.apu[queue]) - Len(ApuBefore.apu[queue])

\* the accumulator of the last step after the tick's cycles were added
Accumulated == ApuBefore.apu.instruction_cycles + ApuBefore.cycles

\* C27: the two sample queues have equal length in every state; a step
\* appends at most one sample to each, and exactly one to each precisely when
\* the accumulated instruction_cycles has reached 87, and then the
\* accumulator is reset to 0.
C27_QueuesInStep ==
    /\ Len(apu.left_sample_queue) = Len(apu.right_sample_queue)
    /\ (apu_last.name = "step" /\ ~ApuAfter.panicked) =>
          /\ Grown("left_sample_queue") \in {0, 1}
          /\ Grown("right_sample_queue") = Grown("left_sample_queue")
          /\ Grown("left_sample_queue") = 1 <=> (EnabledStep /\ Accumulated >= 87)
          /\ Grown("left_sample_queue") = 1 => ApuAfter.apu.instruction_cycles = 0
          /\ ApuAfter.enqueued = Grown("left_sample_queue")

\* a step whose cycles bring an accumulator already begun up to the rate
C27_Witness ==
    /\ CompletedStep
    /\ ApuBefore.apu.instruction_cycles = 84
    /\ ApuBefore.cycles = 4
    /\ Len(apu.left_sample_queue) = 1
    /\ Len(apu.right_sample_queue) = 1
    /\ apu.instruction_cycles = 0

\* C28: the 8-bit accumulator never overflows: after every powered-on step
\* it is below 87, so the next tick's cycles (at most 168) keep it within
\* 0..255.
C28_AccumulatorBelowRate ==
    /\ ~panicked => apu.instruction_cycles < 87
    /\ ~panicked => apu.instruction_cycles + 168 <= 255
    /\ EnabledStep =>
          /\ ApuBefore.cycles <= 168
          /\ Accumulated <= 255
    /\ CompletedStep => ApuAfter.apu.instruction_cycles < 87

\* the largest tick on top of an accumulator already begun
C28_Witness ==
    /\ CompletedStep
    /\ ApuBefore.apu.instruction_cycles = 84
    /\ ApuBefore.cycles = 168
    /\ Accumulated = 252
    /\ apu.instruction_cycles = 0

\* C29: set_audio_master_control stores only bits 4-7 of the written value,
\* and when bit 7 of the value is clear the whole unit is in the power-on
\* state of initialize_apu afterwards.
C29_MasterControlWrite ==
    apu_last.name = "set_audio_master_control" =>
        /\ ApuAfter.apu.audio_master_control % 16 = 0
        /\ apu_last.value >= 128 =>
              ApuAfter.apu = [ApuBefore.apu EXCEPT
                                 !.audio_master_control = (apu_last.value \div 16) * 16]
        /\ apu_last.value < 128 =>
              /\ ApuAfter.apu = initialize_apu
              /\ ~ApuAfter.apu.channel1.enabled
              /\ ~ApuAfter.apu.channel2.enabled
              /\ ~ApuAfter.apu.channel3.enabled
              /\ ~ApuAfter.apu.channel4.enabled
              /\ ApuAfter.apu.divider_apu = 0
              /\ ApuAfter.apu.last_divider_time = 0
              /\ ApuAfter.apu.instruction_cycles = 0
              /\ ApuAfter.apu.audio_master_control = 0
              /\ ApuAfter.apu.left_sample_queue = <<>>
              /\ ApuAfter.apu.right_sample_queue = <<>>

\* a power-off write with status bits in it, on a unit that has run
C29_Witness ==
    /\ apu_last.name = "set_audio_master_control"
    /\ apu_last.value = 15
    /\ Len(ApuBefore.apu.left_sample_queue) = 1
    /\ ApuBefore.apu.last_divider_time = 240
    /\ apu = initialize_apu

\* bit 7 of audio_master_control is clear in the state a
PoweredOff(a) == a.apu.audio_master_control < 128

\* C30: while bit 7 of audio_master_control is clear, apu::step changes
\* nothing, whatever the cycle count and the timers' divider: no advance of
\* the DIV-APU counter and no sample.
C30_PoweredOffStepIsIdle ==
    (apu_last.name = "step" /\ PoweredOff(ApuBefore)) =>
        /\ ApuAfter.apu = ApuBefore.apu
        /\ ~ApuAfter.panicked
        /\ ApuAfter.advanced = 0
        /\ ApuAfter.enqueued = 0
        /\ ApuAfter.decrements = 0

\* a powered-off step of a full tick on a unit whose wave channel is enabled
C30_Witness ==
    /\ apu_last.name = "step"
    /\ PoweredOff(ApuBefore)
    /\ ApuBefore.apu.channel3.enabled
    /\ ApuBefore.cycles = 168
    /\ ApuBefore.divider = 240
    /\ apu = ApuBefore.apu

====
